---- MODULE Spec2Model ----
(***************************************************************************)
(* Context IQ: the event consumer (backend/app/consumers/kafka_consumer.py) *)
(* run by ml/consumer.py.  One EventConsumer instance reads interaction     *)
(* events from the message source, buffers them, flushes the buffer to the  *)
(* interactions table in one transaction, and retrains the embedding model  *)
(* every MODEL_UPDATE_INTERVAL events.                                      *)
(***************************************************************************)
EXTENDS Integers, Sequences, FiniteSets, TLC

\* ---------------------------------------------------------------- bounds
\* Number of messages the message source delivers in one behaviour.
MaxEvents == 3
\* Largest buffer capacity tried (the code's default is 50).
MaxBufferSize == 2
\* Largest retrain interval tried (the code's default is 3600).
MaxInterval == 2
\* Number of recompute passes followed pair by pair in one behaviour.
MaxPasses == 2
\* Number of API requests served in one behaviour.
MaxCalls == 2
\* Number of log_interaction requests in flight together.
MaxRequests == 2
\* Largest number of rows one (user, content) pair has inside the recency window.
MaxCount == 11

\* ---------------------------------------------------------------- values
\* A key that a JSON event does not carry.
Absent == "absent"

UserIds == {"u1", "u2"}
ContentIds == {"c1", "c2"}

\* json.loads(message): the events the source can deliver.  Two well-formed
\* events, one without user_id and one without interaction_type.
Ev(u, c, t) == [user_id |-> u, content_id |-> c, interaction_type |-> t]

EventValues ==
    { Ev("u1", "c1", "view"),
      Ev("u2", "c2", "view"),
      Ev(Absent, "c1", "view"),
      Ev("u1", "c1", Absent) }

\* The content table is filled out of band; the consumer only reads it.
ContentTables == { {}, {"c1"}, {"c1", "c2"} }

Range(s) == { s[i] : i \in 1..Len(s) }

\* ---------------------------------------------------------------- state
VARIABLES
    pc,                    \* where the worker is: Idle (waiting for a message),
                           \* Flushing, Counting, Retraining, Stopped, Closed
    running,               \* coroutines the loop has called and not yet left
    events_buffer,         \* EventConsumer.events_buffer
    buffer_size,           \* EventConsumer.buffer_size
    model_update_counter,  \* EventConsumer.model_update_counter
    MODEL_UPDATE_INTERVAL, \* config.MODEL_UPDATE_INTERVAL
    interactions,          \* committed rows of the interactions table, in insertion order
    natural_key,           \* TRUE iff the table has a unique constraint on the inserted columns
    content,               \* content_id column of the content table
    conn_aborted,          \* the connection's transaction is in the failed state
    model,                 \* EventConsumer.model (the embedding model)
    recommendations,       \* committed rows of the recommendations table
    last_log,              \* level of the most recent log record
    received,              \* history: the messages delivered so far, in order
    flush_result,          \* history: outcome of the flush of the current event
    flush_batch,           \* history: the buffer when that flush started
    store_before,          \* history: the interactions table when that flush started
    retrain_result,        \* history: outcome of the retrain of the current event
    retrain_count,         \* history: number of retrain steps started
    bedrock_available,     \* BedrockClient.available
    pass_pc,               \* where a recompute pass is: none, scoring, committed, rolled_back
    pass_idx,              \* index of the next (user, content) pair the pass scores
    recommendations_to_save, \* the list of that name in the pass
    pass_no,               \* history: number of recompute passes started
    pass_trace,            \* history: per scored pair, its ml_score and the oracle calls made
    pass_before,           \* history: the recommendations table when the pass started
    pass_abort,            \* history: what made the pass roll back: none, store, oracle
    latest,                \* history: per key, the values of its most recent committed upsert
    users_table,           \* user_id column of the users table
    kafka_queue,           \* events published to the user-events topic and not yet read
    cache_recs,            \* redis key recommendations:{user_id}, per user
    cache_profile,         \* redis key user_profile:{user_id}, per user
    api_calls,             \* history: number of API requests served
    last_call,             \* history: the most recent API request and its response
    pass_done,             \* history: per user, the committed recompute passes that
                           \* covered the user while the API is running
    blend_in,              \* the weights and scores one _blend_scores call is given
    blend_out,             \* what that call returned
    response_body,         \* what invoke_model did for one score_contextual_relevance call
    extracted,             \* what that call returned
    training,              \* the weighted-interaction query of one retrain: its
                           \* row count per (user, content) pair and the triples
                           \* retrain_model built from it
    requests,              \* the log_interaction requests of the event loop, each with
                           \* where its handler is and (history) what it did
    process                \* the worker process: EventConsumer.consumer and
                           \* .db_connection (none, open, closed), how the oracle's
                           \* initialize went, and the exception main ends with

pass_vars == << bedrock_available, pass_pc, pass_idx, recommendations_to_save,
                pass_no, pass_trace, pass_before, pass_abort, latest >>

api_vars == << users_table, kafka_queue, cache_recs, cache_profile, api_calls,
               last_call, pass_done >>

fn_vars == << blend_in, blend_out, response_body, extracted, training >>

\* What only the specifications of single functions and handlers change.
extra_vars == << fn_vars, requests, process >>

aux_vars == << pass_vars, api_vars, extra_vars >>

vars == << pc, running, events_buffer, buffer_size, model_update_counter,
           MODEL_UPDATE_INTERVAL, interactions, natural_key, content,
           conn_aborted, model, recommendations, last_log, received,
           flush_result, flush_batch, store_before, retrain_result,
           retrain_count, aux_vars >>

config_vars == << buffer_size, MODEL_UPDATE_INTERVAL, natural_key, content >>

loop_vars == << pc, running, events_buffer, model_update_counter, conn_aborted,
                model, received, flush_result, flush_batch, store_before,
                retrain_result, retrain_count >>

\* A score that is not there (llm_score None).
NoScore == 0 - 1

\* The result of a function that has not been called.
NotApplied == 0 - 3

\* The default weights (tenths) with nothing to blend, and no oracle response.
NoBlend == [w_ml |-> 6, w_llm |-> 4, ml_score |-> 0, llm_score |-> NoScore]
NoResponse == [kind |-> "none", value |-> 0]

\* The pairs whose training weight is looked at, and no query run for them.
WindowPairs == { << "u1", "c1" >>, << "u1", "c2" >> }
NoTraining == [counts |-> [g \in WindowPairs |-> 0], gathered |-> FALSE,
               triples |-> {}]

\* EventConsumer(): nothing is open yet.
Constructed ==
    [consumer |-> "none", db_connection |-> "none", oracle |-> "none",
     error |-> "none"]

\* A worker whose initialize has returned (how the oracle's went is not
\* looked at).
Started ==
    [consumer |-> "open", db_connection |-> "open", oracle |-> "unknown",
     error |-> "none"]

\* Variant: close() closes nothing.
CloseLeavesOpen(p) == p

\* close(): if self.consumer: self.consumer.close(); the same for db_connection.
CloseHandles(p) ==
    [p EXCEPT !.consumer = IF @ = "open" THEN "closed" ELSE @,
              !.db_connection = IF @ = "open" THEN "closed" ELSE @]

\* No single function call is being looked at, and the worker is started.
ExtraIdle ==
    /\ blend_in = NoBlend
    /\ blend_out = NotApplied
    /\ response_body = NoResponse
    /\ extracted = NotApplied
    /\ training = NoTraining
    /\ requests = << >>
    /\ process = Started

\* No recompute pass is being looked at step by step.
PassIdle ==
    /\ bedrock_available = FALSE
    /\ pass_pc = "none"
    /\ pass_idx = 1
    /\ recommendations_to_save = << >>
    /\ pass_no = 0
    /\ pass_trace = << >>
    /\ pass_before = << >>
    /\ pass_abort = "none"
    /\ latest = {}

\* A redis key that is not set.  pass_done is history: the user's pass_done
\* when the entry was written.
NoRecsEntry == [present |-> FALSE, list |-> << >>, pass_done |-> 0]
NoProfileEntry == [present |-> FALSE, total_interactions |-> 0]

\* The response of an API request.  status is the HTTP outcome (success or
\* error 500); a field the response does not carry has its empty value.
\* entry_pass and read_pass are history: the pass_done of the cache entry the
\* response was served from, and the user's pass_done when it was served.
Response(op, u, status, cached, list, total, entry_pass, read_pass) ==
    [op |-> op, user_id |-> u, status |-> status, cached |-> cached,
     recommendations |-> list, total_interactions |-> total,
     entry_pass |-> entry_pass, read_pass |-> read_pass]

NoCall == Response("none", "none", "none", FALSE, << >>, 0, 0, 0)

\* The API has served no request and the cache is empty.
ApiIdle ==
    /\ users_table = {}
    /\ kafka_queue = << >>
    /\ cache_recs = [u \in UserIds |-> NoRecsEntry]
    /\ cache_profile = [u \in UserIds |-> NoProfileEntry]
    /\ api_calls = 0
    /\ last_call = NoCall
    /\ pass_done = [u \in UserIds |-> 0]

\* RecommenderModel() before any initialize_embeddings.
NoModel == [users |-> {}, contents |-> {}, version |-> 0, trained |-> FALSE]

\* The recommendations table before any pass: no row.
NoRecommendations == << >>

\* EventConsumer.__init__ followed by a successful initialize().
Init ==
    /\ pc = "Idle"
    /\ running = {}
    /\ events_buffer = << >>
    /\ buffer_size \in 1..MaxBufferSize
    /\ model_update_counter = 0
    /\ MODEL_UPDATE_INTERVAL \in 1..MaxInterval
    /\ interactions = << >>
    /\ natural_key \in BOOLEAN
    /\ content \in ContentTables
    /\ conn_aborted = FALSE
    /\ model = NoModel
    /\ recommendations = NoRecommendations
    /\ last_log = "info"
    /\ received = << >>
    /\ flush_result = "none"
    /\ flush_batch = << >>
    /\ store_before = << >>
    /\ retrain_result = "none"
    /\ retrain_count = 0
    /\ PassIdle
    /\ ApiIdle
    /\ ExtraIdle

\* ------------------------------------------------------- the durable store
\* The columns process_batch inserts for one event (duration_seconds is read
\* with .get and cannot fail; created_at is set by the store).
Row(e) == [user_id |-> e.user_id, content_id |-> e.content_id,
           interaction_type |-> e.interaction_type]

\* event['user_id'], event['content_id'], event['interaction_type'] all exist.
HasInsertKeys(e) ==
    /\ e.user_id # Absent
    /\ e.content_id # Absent
    /\ e.interaction_type # Absent

\* INSERT INTO interactions ... ON CONFLICT DO NOTHING, seen from inside the
\* transaction: view is the committed rows followed by the rows inserted so far.
InsertRow(view, r) ==
    IF natural_key /\ r \in Range(view) THEN view ELSE Append(view, r)

RECURSIVE ExecuteInserts(_, _)
ExecuteInserts(view, rows) ==
    IF rows = << >> THEN view
    ELSE ExecuteInserts(InsertRow(view, Head(rows)), Tail(rows))

\* Variant: the loop stops one event short of the end of the buffer.
BatchRowsSkipLast(buf) == [i \in 1..(Len(buf) - 1) |-> Row(buf[i])]

\* Variant: the loop walks the buffer from its newest event to its oldest.
BatchRowsReversed(buf) == [i \in 1..Len(buf) |-> Row(buf[Len(buf) + 1 - i])]

\* The rows the loop of process_batch sends, in the order it sends them.
BatchRows(buf) == [i \in 1..Len(buf) |-> Row(buf[i])]

\* db_connection.commit(): the transaction's view becomes the table.
StoreAfterCommit(committed, view) == view

\* Variant: the inserts executed before the failure stay in the table.
StoreKeepsExecuted(committed, view) == view

\* db_connection.rollback(): the table is what it was.
StoreAfterRollback(committed, view) == committed

\* Variant: the buffer is cleared whatever the outcome of the flush.
BufferClearedAlways(buf, ok) == << >>

\* events_buffer.clear() runs only after commit() returned.
BufferAfterFlush(buf, ok) == IF ok THEN << >> ELSE buf

\* Index of the first event of buf whose insert parameters raise KeyError, 0 if none.
FirstKeyError(buf) ==
    LET bad == { i \in 1..Len(buf) : ~HasInsertKeys(buf[i]) }
    IN IF bad = {} THEN 0 ELSE CHOOSE i \in bad : \A j \in bad : i <= j

\* SELECT DISTINCT user_id FROM interactions
StoredUsers(rows) == { r.user_id : r \in Range(rows) }

\* ------------------------------------------------------- the consume loop
\* Variant: the loop starts process_batch and retrain_model without awaiting them.
AtPollNotAwaiting(p) == p \in {"Idle", "Flushing", "Retraining"}

\* The for loop takes the next message only when the loop body has finished:
\* process_batch and retrain_model are awaited.
AtPoll(p) == p = "Idle"

\* Variant: the flush starts only when the buffer has grown past its size.
BufferFullAbove(buf) == Len(buf) > buffer_size

\* if len(self.events_buffer) >= self.buffer_size
BufferFull(buf) == Len(buf) >= buffer_size

\* if self.model_update_counter >= config.MODEL_UPDATE_INTERVAL
RetrainDue(c) == c >= MODEL_UPDATE_INTERVAL

\* Variant: the counter is left as it is after a retrain.
CounterKept(c) == c

\* self.model_update_counter = 0, after retrain_model returned
CounterAfterRetrain(c) == 0

\* for message in self.consumer: append, debug log, decide on a flush.
Receive(e) ==
    /\ AtPoll(pc)
    /\ Len(received) < MaxEvents
    /\ received' = Append(received, e)
    /\ events_buffer' = Append(events_buffer, e)
    /\ flush_result' = "none"
    /\ flush_batch' = << >>
    /\ store_before' = << >>
    /\ retrain_result' = "none"
    /\ IF e.user_id = Absent \/ e.content_id = Absent
       THEN \* the debug f-string raises KeyError; except Exception ends the loop
            /\ pc' = "Stopped"
            /\ last_log' = "error"
            /\ running' = running
       ELSE /\ last_log' = "debug"
            /\ IF BufferFull(events_buffer')
               THEN pc' = "Flushing" /\ running' = running \cup {"process_batch"}
               ELSE pc' = "Counting" /\ running' = running
    /\ UNCHANGED << model_update_counter, interactions, conn_aborted, model,
                    recommendations, retrain_count, config_vars, aux_vars >>

\* The consumer iterator raises KafkaError: logged, the loop ends.
KafkaFailure ==
    /\ pc = "Idle"
    /\ pc' = "Stopped"
    /\ last_log' = "error"
    /\ UNCHANGED << running, events_buffer, model_update_counter, interactions,
                    conn_aborted, model, recommendations, received, flush_result,
                    flush_batch, store_before, retrain_result, retrain_count,
                    config_vars, aux_vars >>

FlushFaults == {"none", "execute", "commit", "lost"}

\* process_batch.  fault is what the store does during this attempt: nothing,
\* the at-th execute raises, commit raises, or the connection is lost (an
\* execute or the commit raises and rollback raises as well).
ProcessBatch(fault, at) ==
    /\ pc = "Flushing"
    /\ events_buffer # << >>
    /\ at \in 1..Len(events_buffer)
    /\ LET keyAt == FirstKeyError(events_buffer)
           dbAt == IF conn_aborted THEN 1
                   ELSE IF fault = "execute" THEN at ELSE 0
           failAt == IF keyAt = 0 THEN dbAt
                     ELSE IF dbAt = 0 THEN keyAt
                     ELSE IF keyAt <= dbAt THEN keyAt ELSE dbAt
           executed == IF failAt = 0 THEN events_buffer
                       ELSE SubSeq(events_buffer, 1, failAt - 1)
           view == ExecuteInserts(interactions, BatchRows(executed))
           ok == failAt = 0 /\ fault \notin {"commit", "lost"}
       IN /\ flush_batch' = events_buffer
          /\ store_before' = interactions
          /\ flush_result' = IF ok THEN "committed" ELSE "rolled_back"
          /\ interactions' = IF ok THEN StoreAfterCommit(interactions, view)
                             ELSE StoreAfterRollback(interactions, view)
          /\ events_buffer' = BufferAfterFlush(events_buffer, ok)
          /\ last_log' = IF ok THEN "info" ELSE "error"
          /\ conn_aborted' = FALSE
          /\ pc' = IF ~ok /\ fault = "lost" THEN "Stopped" ELSE "Counting"
    /\ running' = running \ {"process_batch"}
    /\ UNCHANGED << model_update_counter, model, recommendations, received,
                    retrain_result, retrain_count, config_vars, aux_vars >>

\* self.model_update_counter += 1 and the test that follows it.
Count ==
    /\ pc = "Counting"
    /\ model_update_counter' = model_update_counter + 1
    /\ IF RetrainDue(model_update_counter')
       THEN /\ pc' = "Retraining"
            /\ running' = running \cup {"retrain_model"}
            /\ retrain_count' = retrain_count + 1
       ELSE /\ pc' = "Idle"
            /\ UNCHANGED << running, retrain_count >>
    /\ UNCHANGED << events_buffer, interactions, conn_aborted, model,
                    recommendations, last_log, received, flush_result,
                    flush_batch, store_before, retrain_result, config_vars, aux_vars >>

\* ------------------------------------------------------- retraining
\* Variant: the retrain is skipped only when both tables are empty.
InsufficientOnlyIfBoth(users, cont) == users = {} /\ cont = {}

\* if not users or not content
InsufficientData(users, cont) == users = {} \/ cont = {}

\* RecommenderModel.initialize_embeddings(users, content): a fresh call replaces
\* the vectors and both id-to-index mappings; version names the initialisation.
InitializeEmbeddings(m, users, cont) ==
    [users |-> users, contents |-> cont, version |-> m.version + 1,
     trained |-> FALSE]

\* RecommenderModel.train_on_interactions: the vectors of m are fitted.
TrainOnInteractions(m) == [m EXCEPT !.trained = TRUE]

\* The (user_id, content_id) groups of the weighted-interaction query (every
\* row of a behaviour is younger than the 7 day window).
InteractionGroups(rows) ==
    { << r.user_id, r.content_id >> : r \in Range(rows) }

\* self.model.content_id_to_idx[content_id] raises KeyError for a group whose
\* content_id is not in the content table (user_id is always mapped).
GroupLookupFails(rows, cont) ==
    \E g \in InteractionGroups(rows) : g[2] \notin cont

\* The order in which the store returns the ids of a SELECT DISTINCT.
UserOrder == << "u1", "u2" >>
ContentOrder == << "c1", "c2" >>

\* The ids of a set in that order.
InOrder(order, ids) == SelectSeq(order, LAMBDA x : x \in ids)

\* for user_id in users: for content_id in all_content_ids: the pairs of a
\* pass in the order they are scored.
PairSeq(us, cs) ==
    [i \in 1..(Len(us) * Len(cs)) |->
        << us[((i - 1) \div Len(cs)) + 1], cs[((i - 1) % Len(cs)) + 1] >>]

\* Two recommendation rows have the same (user_id, content_id) key.
SameKey(a, b) == a.user_id = b.user_id /\ a.content_id = b.content_id

\* Variant: ON CONFLICT (user_id, content_id) DO NOTHING keeps the stored row.
UpsertKeepsOld(table, rec) ==
    IF \E i \in 1..Len(table) : SameKey(table[i], rec)
    THEN table
    ELSE Append(table, rec)

\* Variant: a plain INSERT on a table without the unique key adds a second row.
UpsertAppends(table, rec) == Append(table, rec)

\* INSERT INTO recommendations ... ON CONFLICT (user_id, content_id) DO UPDATE
\* SET every score column to the new value.
UpsertRow(table, rec) ==
    IF \E i \in 1..Len(table) : SameKey(table[i], rec)
    THEN [i \in 1..Len(table) |->
              IF SameKey(table[i], rec) THEN rec ELSE table[i]]
    ELSE Append(table, rec)

\* _save_recommendations_batch: one upsert per computed row, in list order.
RECURSIVE UpsertAll(_, _)
UpsertAll(table, recs) ==
    IF recs = << >> THEN table
    ELSE UpsertAll(UpsertRow(table, Head(recs)), Tail(recs))

\* The table as the recompute pass of a retrain leaves its transaction: every
\* user of the interactions table against every content id, scored by model m
\* (the row names the model version its scores come from).
SaveRecommendationsBatch(recs, users, cont, m) ==
    LET pairs == PairSeq(InOrder(UserOrder, users), InOrder(ContentOrder, cont))
    IN UpsertAll(recs, [i \in 1..Len(pairs) |->
                           [user_id |-> pairs[i][1], content_id |-> pairs[i][2],
                            version |-> m.version]])

\* self.db_connection.commit() of a pass: its upserts become the table.
RecsAfterCommit(committed, view) == view

\* Variant: the upserts executed before the failure stay in the table.
RecsKeepExecuted(committed, view) == view

\* self.db_connection.rollback() of a pass: the table is what it was.
RecsAfterRollback(committed, view) == committed

RetrainFaults == {"none", "select", "recompute"}

\* retrain_model and the counter reset that follows it.  fault is what the
\* store does: nothing, the first SELECT raises, or the recompute pass raises
\* before its commit.
RetrainModel(fault) ==
    /\ pc = "Retraining"
    /\ LET users == StoredUsers(interactions)
           m1 == InitializeEmbeddings(model, users, content)
           m2 == TrainOnInteractions(m1)
       IN IF conn_aborted \/ fault = "select"
          THEN \* cursor.execute raises; except Exception logs; no rollback
               /\ retrain_result' = "db_error"
               /\ conn_aborted' = TRUE
               /\ last_log' = "error"
               /\ UNCHANGED << model, recommendations >>
          ELSE IF InsufficientData(users, content)
          THEN /\ retrain_result' = "insufficient"
               /\ last_log' = "warning"
               /\ UNCHANGED << model, recommendations, conn_aborted >>
          ELSE IF GroupLookupFails(interactions, content)
          THEN /\ retrain_result' = "key_error"
               /\ model' = m1
               /\ last_log' = "error"
               /\ UNCHANGED << recommendations, conn_aborted >>
          ELSE IF fault = "recompute"
          THEN \* _compute_and_save_recommendations rolls back and logs
               /\ retrain_result' = "recompute_failed"
               /\ model' = m2
               /\ last_log' = "error"
               /\ recommendations' =
                      RecsAfterRollback(recommendations,
                          SaveRecommendationsBatch(recommendations, users, content, m2))
               /\ UNCHANGED conn_aborted
          ELSE /\ retrain_result' = "done"
               /\ model' = m2
               /\ recommendations' =
                      RecsAfterCommit(recommendations,
                          SaveRecommendationsBatch(recommendations, users, content, m2))
               /\ last_log' = "info"
               /\ UNCHANGED conn_aborted
    /\ model_update_counter' = CounterAfterRetrain(model_update_counter)
    /\ pc' = "Idle"
    /\ running' = running \ {"retrain_model"}
    /\ UNCHANGED << events_buffer, interactions, received, flush_result,
                    flush_batch, store_before, retrain_count, config_vars, aux_vars >>

\* ------------------------------------------------------- shutdown
\* KeyboardInterrupt (or cancellation) reaches main: the step in progress is
\* abandoned, its open transaction is discarded with the connection, and
\* main's finally closes the consumer.
Interrupt ==
    /\ pc \in {"Idle", "Flushing", "Counting", "Retraining"}
    /\ pc' = "Closed"
    /\ running' = {}
    /\ last_log' = "info"
    /\ process' = CloseHandles(process)
    /\ UNCHANGED << events_buffer, model_update_counter, interactions,
                    conn_aborted, model, recommendations, received, flush_result,
                    flush_batch, store_before, retrain_result, retrain_count,
                    config_vars, pass_vars, api_vars, fn_vars, requests >>

\* start_consuming returned after a logged error (Stopped), or an exception
\* of initialize or start_consuming reached main, which logs it and raises it
\* again (Failed); main's finally runs close(), which logs what it closes.
Close ==
    /\ pc \in {"Stopped", "Failed"}
    /\ pc' = "Closed"
    /\ process' = CloseHandles(process)
    /\ last_log' = IF process' = process THEN "error" ELSE "info"
    /\ UNCHANGED << running, events_buffer, model_update_counter, interactions,
                    conn_aborted, model, recommendations, received, flush_result,
                    flush_batch, store_before, retrain_result, retrain_count,
                    config_vars, pass_vars, api_vars, fn_vars, requests >>

Next ==
    \/ \E e \in EventValues : Receive(e)
    \/ KafkaFailure
    \/ \E f \in FlushFaults : \E at \in 1..MaxEvents : ProcessBatch(f, at)
    \/ Count
    \/ \E f \in RetrainFaults : RetrainModel(f)
    \/ Interrupt
    \/ Close

Spec == Init /\ [][Next]_vars

\* ------------------------------------------------------- startup
\* main(): consumer = EventConsumer(); await consumer.initialize(); await
\* consumer.start_consuming(); finally await consumer.close().

StartInit ==
    /\ pc = "Constructed"
    /\ running = {}
    /\ events_buffer = << >>
    /\ buffer_size \in 1..MaxBufferSize
    /\ model_update_counter = 0
    /\ MODEL_UPDATE_INTERVAL \in 1..MaxInterval
    /\ interactions = << >>
    /\ natural_key \in BOOLEAN
    /\ content \in ContentTables
    /\ conn_aborted = FALSE
    /\ model = NoModel
    /\ recommendations = NoRecommendations
    /\ last_log = "info"
    /\ received = << >>
    /\ flush_result = "none"
    /\ flush_batch = << >>
    /\ store_before = << >>
    /\ retrain_result = "none"
    /\ retrain_count = 0
    /\ PassIdle
    /\ ApiIdle
    /\ blend_in = NoBlend
    /\ blend_out = NotApplied
    /\ response_body = NoResponse
    /\ extracted = NotApplied
    /\ training = NoTraining
    /\ requests = << >>
    /\ process = Constructed

\* What initialize can meet: KafkaConsumer(...) raises, psycopg2.connect raises.
InitializeFaults == {"none", "kafka", "db"}

\* BedrockClient.initialize: no credentials, boto3.client raises, or a client.
OracleOutcomes == {"no_credentials", "client_error", "ok"}

\* Variant: initialize logs the exception and returns.
InitializeSwallows(fault) == "Initialized"

\* initialize's except Exception: log, raise.
AfterInitialize(fault) == IF fault = "none" THEN "Initialized" ELSE "Failed"

\* Variant: an oracle that cannot be initialized ends initialize like the store.
OracleFailureIsFatal(oracle) == IF oracle = "ok" THEN "none" ELSE "oracle"

\* BedrockClient.initialize catches every exception and returns.
OracleError(oracle) == "none"

start_frame == << running, events_buffer, model_update_counter, interactions,
                 conn_aborted, model, recommendations, received, flush_result,
                 flush_batch, store_before, retrain_result, retrain_count,
                 config_vars, pass_pc, pass_idx, recommendations_to_save,
                 pass_no, pass_trace, pass_before, pass_abort, latest,
                 api_vars, fn_vars, requests >>

\* EventConsumer.initialize: the consumer, then the connection, then the oracle.
Initialize(fault, oracle) ==
    /\ pc = "Constructed"
    /\ process.consumer = "none"
    /\ LET reached == fault = "none"
           error == IF reached THEN OracleError(oracle) ELSE fault
       IN /\ process' =
                 [consumer |-> IF fault = "kafka" THEN "none" ELSE "open",
                  db_connection |-> IF reached THEN "open" ELSE "none",
                  oracle |-> IF reached THEN oracle ELSE "none",
                  error |-> error]
          /\ bedrock_available' = (reached /\ oracle = "ok")
          /\ pc' = IF reached /\ error # "none" THEN "Failed"
                   ELSE AfterInitialize(fault)
          /\ last_log' = IF ~reached \/ oracle = "client_error" THEN "error"
                         ELSE IF oracle = "no_credentials" THEN "warning"
                         ELSE "info"
    /\ UNCHANGED start_frame

\* EventConsumer.start_consuming up to its loop: called by main after
\* initialize, or by a caller that did not initialize.
StartConsuming ==
    /\ pc \in {"Constructed", "Initialized"}
    /\ IF process.consumer = "none"
       THEN \* raise RuntimeError("Consumer not initialized")
            /\ pc' = "Failed"
            /\ process' = [process EXCEPT !.error = "RuntimeError"]
            /\ UNCHANGED last_log
       ELSE /\ pc' = "Idle"
            /\ last_log' = "info"
            /\ UNCHANGED process
    /\ UNCHANGED << bedrock_available, start_frame >>

StartNext ==
    \/ \E fault \in InitializeFaults : \E oracle \in OracleOutcomes :
           Initialize(fault, oracle)
    \/ StartConsuming
    \/ Next

StartSpec == StartInit /\ [][StartNext]_vars

\* ================================================= the recompute pass
\* _compute_and_save_recommendations followed pair by pair.  Scores are in
\* thousandths (310 is 0.31); the blend weights are in tenths.

\* if self.bedrock_client.available and ml_score > 0.3
GateThreshold == 300

\* config.ML_SCORE_WEIGHT and config.LLM_SCORE_WEIGHT (0.6 and 0.4).
ML_SCORE_WEIGHT == 6
LLM_SCORE_WEIGHT == 4

\* RecommenderModel.predict_scores: some score in [0,1] per content id; the
\* values just below, at and just above the gate.
MlScores == {290, 300, 310}

\* What invoke_model can do for one call: raise (ClientError, BotoCoreError, a
\* timeout), or answer with a text that is or is not a number.
Resp(k, v) == [kind |-> k, value |-> v]

OracleResponses ==
    { Resp("raises", 0), Resp("unparseable", 0), Resp("number", 800),
      Resp("number", 1500) }

\* What a call that lets its exception escape gives to its caller.
Raised == 0 - 2

\* Variant: the parsed number is returned as it is.
ExtractScoreUnclamped(resp) ==
    IF resp.kind = "malformed" THEN Raised
    ELSE IF resp.kind = "nan" THEN 1000
    ELSE IF resp.kind # "number" THEN NoScore
    ELSE resp.value

\* Variant: an answer without a number counts as the middle score.
ExtractScoreDefaultsToHalf(resp) ==
    IF resp.kind = "malformed" THEN Raised
    ELSE IF resp.kind = "nan" THEN 1000
    ELSE IF resp.kind # "number" THEN 500
    ELSE IF resp.value < 0 THEN 0
    ELSE IF resp.value > 1000 THEN 1000
    ELSE resp.value

\* _extract_score: max(0.0, min(1.0, float(text))), None when the body has no
\* content list or the text is not a number (ValueError, KeyError, IndexError
\* and TypeError are caught).  float("nan") parses, and min(1.0, nan) is 1.0.
\* A content item that is no object, or a text that is no string, raises
\* AttributeError, which is not caught here.
ExtractScore(resp) ==
    IF resp.kind = "malformed" THEN Raised
    ELSE IF resp.kind = "nan" THEN 1000
    ELSE IF resp.kind # "number" THEN NoScore
    ELSE IF resp.value < 0 THEN 0
    ELSE IF resp.value > 1000 THEN 1000
    ELSE resp.value

\* Variant: an exception of invoke_model escapes score_contextual_relevance.
ScoreLetsErrorsEscape(resp) ==
    IF resp.kind = "raises" THEN Raised ELSE ExtractScore(resp)

\* score_contextual_relevance on an available client: every exception is
\* caught and gives None.
ScoreContextualRelevance(resp) ==
    IF resp.kind = "raises" \/ ExtractScore(resp) = Raised THEN NoScore
    ELSE ExtractScore(resp)

\* Variant: the gate lets a score equal to the threshold through.
ConsultAtOrAboveGate(ml) == bedrock_available /\ ml >= GateThreshold

\* Variant: the comparison of the gate is the wrong way round.
ConsultBelowGate(ml) == bedrock_available /\ ml < GateThreshold

\* if self.bedrock_client.available and ml_score > 0.3 (the content row of an
\* id read from the content table is always found)
Consult(ml) == bedrock_available /\ ml > GateThreshold

\* Variant: an absent LLM score is blended as zero.
BlendAbsentAsZero(w_ml, w_llm, ml, llm) ==
    LET blended == IF llm = NoScore THEN (w_ml * ml) \div 10
                   ELSE (w_ml * ml + w_llm * llm) \div 10
    IN IF blended > 1000 THEN 1000
       ELSE IF blended < 0 THEN 0
       ELSE blended

\* Variant: the two weights are applied the wrong way round.
BlendWeightsSwapped(w_ml, w_llm, ml, llm) ==
    IF llm = NoScore THEN ml
    ELSE LET blended == (w_llm * ml + w_ml * llm) \div 10
         IN IF blended > 1000 THEN 1000
            ELSE IF blended < 0 THEN 0
            ELSE blended

\* Variant: the weighted sum is returned without min and max.
BlendUnclamped(w_ml, w_llm, ml, llm) ==
    IF llm = NoScore THEN ml ELSE (w_ml * ml + w_llm * llm) \div 10

\* _blend_scores with the weights config holds (in tenths; scores are in
\* thousandths, and every score tried is a multiple of ten, so the division
\* is exact).
BlendWith(w_ml, w_llm, ml, llm) ==
    IF llm = NoScore THEN ml
    ELSE LET blended == (w_ml * ml + w_llm * llm) \div 10
         IN IF blended > 1000 THEN 1000
            ELSE IF blended < 0 THEN 0
            ELSE blended

\* _blend_scores with the default weights
BlendScores(ml, llm) == BlendWith(ML_SCORE_WEIGHT, LLM_SCORE_WEIGHT, ml, llm)

\* Variant: SELECT user_id FROM interactions without DISTINCT.
PassUsersNotDistinct(rows) == [i \in 1..Len(rows) |-> rows[i].user_id]

\* SELECT DISTINCT user_id FROM interactions, as the list the pass walks.
PassUsers(rows) == InOrder(UserOrder, StoredUsers(rows))

\* The pairs of the pass, in scoring order.
PassPairs == PairSeq(PassUsers(interactions), InOrder(ContentOrder, content))

\* The interactions and content tables a pass can find (at most two pairs).
IRow(u, c) == [user_id |-> u, content_id |-> c, interaction_type |-> "view"]

PassTables ==
    { [rows |-> << IRow("u1", "c1") >>, cont |-> {"c1", "c2"}],
      [rows |-> << IRow("u1", "c1"), IRow("u1", "c1") >>, cont |-> {"c1"}],
      [rows |-> << IRow("u1", "c1"), IRow("u2", "c1") >>, cont |-> {"c1"}] }

\* The consumer is inside retrain_model, about to recompute.
PassInit ==
    /\ pc = "Retraining"
    /\ running = {"retrain_model"}
    /\ events_buffer = << >>
    /\ buffer_size = 1
    /\ model_update_counter = 1
    /\ MODEL_UPDATE_INTERVAL = 1
    /\ \E t \in PassTables : interactions = t.rows /\ content = t.cont
    /\ natural_key = FALSE
    /\ conn_aborted = FALSE
    /\ model = [users |-> StoredUsers(interactions), contents |-> content,
                version |-> 1, trained |-> TRUE]
    /\ recommendations = NoRecommendations
    /\ last_log = "info"
    /\ received = << >>
    /\ flush_result = "none"
    /\ flush_batch = << >>
    /\ store_before = << >>
    /\ retrain_result = "none"
    /\ retrain_count = 1
    /\ bedrock_available \in BOOLEAN
    /\ pass_pc = "none"
    /\ pass_idx = 1
    /\ recommendations_to_save = << >>
    /\ pass_no = 0
    /\ pass_trace = << >>
    /\ pass_before = << >>
    /\ pass_abort = "none"
    /\ latest = {}
    /\ ApiIdle
    /\ ExtraIdle

pass_frame == << loop_vars, config_vars, interactions, bedrock_available,
                api_vars, extra_vars >>

\* A pass starts: recommendations_to_save = [].
StartPass ==
    /\ pass_pc \in {"none", "committed", "rolled_back"}
    /\ pass_no < MaxPasses
    /\ pass_pc' = "scoring"
    /\ pass_no' = pass_no + 1
    /\ pass_idx' = 1
    /\ recommendations_to_save' = << >>
    /\ pass_trace' = << >>
    /\ pass_before' = recommendations
    /\ pass_abort' = "none"
    /\ UNCHANGED << recommendations, latest, last_log, pass_frame >>

\* One turn of the inner loop: ml is the model's score for the pair, resp what
\* the oracle does if it is called.
ScorePair(ml, resp) ==
    /\ pass_pc = "scoring"
    /\ pass_idx <= Len(PassPairs)
    /\ Consult(ml) \/ resp = Resp("raises", 0)
    /\ LET pair == PassPairs[pass_idx]
           called == Consult(ml)
           llm == IF called THEN ScoreContextualRelevance(resp) ELSE NoScore
           step == [user_id |-> pair[1], content_id |-> pair[2],
                    ml_score |-> ml, calls |-> IF called THEN 1 ELSE 0,
                    response |-> resp]
       IN /\ pass_trace' = Append(pass_trace, step)
          /\ IF llm = Raised
             THEN \* except Exception: rollback, log
                  /\ pass_pc' = "rolled_back"
                  /\ pass_abort' = "oracle"
                  /\ recommendations' =
                         RecsAfterRollback(recommendations, recommendations)
                  /\ last_log' = "error"
                  /\ UNCHANGED << pass_idx, recommendations_to_save >>
             ELSE /\ recommendations_to_save' =
                         Append(recommendations_to_save,
                                [user_id |-> pair[1], content_id |-> pair[2],
                                 ml_score |-> ml, llm_score |-> llm,
                                 combined_score |-> BlendScores(ml, llm)])
                  /\ pass_idx' = pass_idx + 1
                  /\ UNCHANGED << pass_pc, pass_abort, recommendations, last_log >>
    /\ UNCHANGED << pass_no, pass_before, latest, pass_frame >>

\* A query of the scoring loop raises (the interaction count, the interests or
\* the content row): nothing was written yet, the pass rolls back.
ScoringQueryFails ==
    /\ pass_pc = "scoring"
    /\ pass_idx <= Len(PassPairs)
    /\ pass_pc' = "rolled_back"
    /\ pass_abort' = "store"
    /\ recommendations' = RecsAfterRollback(recommendations, recommendations)
    /\ last_log' = "error"
    /\ UNCHANGED << pass_idx, recommendations_to_save, pass_no, pass_trace,
                    pass_before, latest, pass_frame >>

\* The keys of latest replaced by the last row of each key in recs.
LatestAfter(old, recs) ==
    { r \in old : \A i \in 1..Len(recs) : ~SameKey(r, recs[i]) }
    \cup { recs[i] : i \in { k \in 1..Len(recs) :
                               \A j \in (k + 1)..Len(recs) :
                                   ~SameKey(recs[k], recs[j]) } }

SaveFaults == {"none", "execute", "commit"}

\* _save_recommendations_batch and commit.  fault: nothing, the at-th upsert
\* raises, or the commit raises; both roll the pass back.
SaveBatch(fault, at) ==
    /\ pass_pc = "scoring"
    /\ pass_idx > Len(PassPairs)
    /\ at \in 1..Len(recommendations_to_save)
    /\ LET executed == IF fault = "execute"
                       THEN SubSeq(recommendations_to_save, 1, at - 1)
                       ELSE recommendations_to_save
           view == UpsertAll(recommendations, executed)
           ok == fault = "none"
       IN /\ recommendations' = IF ok THEN RecsAfterCommit(recommendations, view)
                                ELSE RecsAfterRollback(recommendations, view)
          /\ pass_pc' = IF ok THEN "committed" ELSE "rolled_back"
          /\ pass_abort' = IF ok THEN "none" ELSE "store"
          /\ latest' = IF ok THEN LatestAfter(latest, recommendations_to_save)
                       ELSE latest
          /\ last_log' = IF ok THEN "info" ELSE "error"
    /\ UNCHANGED << pass_idx, recommendations_to_save, pass_no, pass_trace,
                    pass_before, pass_frame >>

\* No pass has more pairs than there are (user, content) combinations.
MaxPassPairs == Len(UserOrder) * Len(ContentOrder)

PassNext ==
    \/ StartPass
    \/ \E ml \in MlScores : \E resp \in OracleResponses : ScorePair(ml, resp)
    \/ ScoringQueryFails
    \/ \E f \in SaveFaults : \E at \in 1..MaxPassPairs : SaveBatch(f, at)

PassSpec == PassInit /\ [][PassNext]_vars

\* ------------------------------------------------------- the API and cache
\* The API (api/routes.py) runs next to the consumer: log_interaction writes
\* the interactions table and publishes the event, get_recommendations and
\* get_user_profile read through the redis cache, and the consumer's recompute
\* pass rewrites the recommendations table.  Each request is one step.

Limits == 1..2

\* The content the logged interactions are with.
LoggedContent == {"c1"}

Min(a, b) == IF a < b THEN a ELSE b

\* Variant: a cached list is returned whole.
TakeAll(list, limit) == list

\* cached[:limit]
Take(list, limit) == SubSeq(list, 1, Min(limit, Len(list)))

\* SELECT COUNT(*) FROM interactions WHERE user_id = u
CountOf(u) ==
    Cardinality({ i \in 1..Len(interactions) : interactions[i].user_id = u })

\* A row of the recommendations table as the response carries it.
Item(r) ==
    [content_id |-> r.content_id, ml_score |-> r.ml_score,
     llm_score |-> r.llm_score, combined_score |-> r.combined_score]

UserRecs(u) == { r \in Range(recommendations) : r.user_id = u }

\* SELECT ... FROM recommendations WHERE user_id = u ORDER BY combined_score
\* DESC LIMIT limit: every list the query can return (rows of equal score come
\* in any order), each row enriched from the content table.
RankedLists(u, limit) ==
    LET rows == UserRecs(u)
        n == Min(limit, Cardinality(rows))
    IN { [i \in 1..n |-> Item(q[i])] :
           q \in { q \in [1..n -> rows] :
                     /\ \A i, j \in 1..n : i < j =>
                            /\ q[i] # q[j]
                            /\ q[i].combined_score >= q[j].combined_score
                     /\ \A r \in rows :
                            (\A i \in 1..n : q[i] # r) =>
                                \A i \in 1..n :
                                    q[i].combined_score >= r.combined_score } }

\* The API next to an idle consumer, after user u1 has logged a first
\* interaction (its event is still in the topic) and has read the profile
\* once.  The content table holds both items.
ApiInit ==
    /\ pc = "Idle"
    /\ running = {}
    /\ events_buffer = << >>
    /\ buffer_size = 1
    /\ model_update_counter = 0
    /\ MODEL_UPDATE_INTERVAL = 1
    /\ interactions = << IRow("u1", "c1") >>
    /\ natural_key = FALSE
    /\ content = ContentIds
    /\ conn_aborted = FALSE
    /\ model = NoModel
    /\ recommendations = NoRecommendations
    /\ last_log = "info"
    /\ received = << >>
    /\ flush_result = "none"
    /\ flush_batch = << >>
    /\ store_before = << >>
    /\ retrain_result = "none"
    /\ retrain_count = 0
    /\ PassIdle
    /\ users_table = {"u1"}
    /\ kafka_queue = << Ev("u1", "c1", "view") >>
    /\ cache_recs = [u \in UserIds |-> NoRecsEntry]
    /\ cache_profile =
           [u \in UserIds |->
               IF u = "u1" THEN [present |-> TRUE, total_interactions |-> 1]
               ELSE NoProfileEntry]
    /\ api_calls = 0
    /\ last_call = NoCall
    /\ pass_done = [u \in UserIds |-> 0]
    /\ ExtraIdle

\* What no request and no pass of this view changes (the API writes its own
\* log, not the consumer's).
api_frame == << loop_vars, config_vars, bedrock_available, last_log, pass_pc,
               extra_vars >>

LogFaults == {"none", "query", "user_insert", "interaction_insert"}

\* POST /interact.  db is the statement of the handler that raises, if any;
\* published and redis_ok say whether the producer and the cache work during
\* the request (neither publish_user_event nor invalidate_recommendations
\* raises: they return False, and the handler ignores what they return).
LogInteraction(u, c, db, published, redis_ok) ==
    /\ api_calls < MaxCalls
    /\ db = "user_insert" => u \notin users_table
    /\ LET ok == db = "none"
       IN /\ users_table' = IF db \in {"query", "user_insert"} THEN users_table
                            ELSE users_table \cup {u}
          /\ interactions' = IF ok THEN Append(interactions, IRow(u, c))
                             ELSE interactions
          /\ kafka_queue' = IF ok /\ published
                            THEN Append(kafka_queue, Ev(u, c, "view"))
                            ELSE kafka_queue
          /\ cache_recs' = IF ok /\ redis_ok
                           THEN [cache_recs EXCEPT ![u] = NoRecsEntry]
                           ELSE cache_recs
          /\ last_call' = Response("log_interaction", u,
                                   IF ok THEN "success" ELSE "error",
                                   FALSE, << >>, 0, 0, pass_done[u])
    /\ api_calls' = api_calls + 1
    /\ UNCHANGED << cache_profile, pass_done, recommendations, pass_idx,
                    recommendations_to_save, pass_no, pass_trace, pass_before,
                    pass_abort, latest, api_frame >>

\* Variant: the entry is returned although the cache operation failed.
GetCachedDespiteFailure(entry, redis_ok) == entry

\* get_cached_recommendations: the entry, or None (no entry) when the client
\* is not initialized, the operation raises, or the key is not set.
GetCachedRecommendations(entry, redis_ok) ==
    IF redis_ok /\ entry.present THEN entry ELSE NoRecsEntry

\* GET /recommendations.  q is the list the recommendations query returns when
\* the handler gets that far.
GetRecommendations(u, limit, redis_ok, db_ok) ==
    /\ api_calls < MaxCalls
    /\ \E q \in RankedLists(u, limit) :
       LET entry == GetCachedRecommendations(cache_recs[u], redis_ok)
           hit == entry.present /\ entry.list # << >>
           found == IF CountOf(u) = 0 THEN << >> ELSE q
       IN IF hit
          THEN /\ last_call' = Response("get_recommendations", u, "success",
                                        TRUE, Take(entry.list, limit), 0,
                                        entry.pass_done, pass_done[u])
               /\ UNCHANGED cache_recs
          ELSE IF ~db_ok
          THEN /\ last_call' = Response("get_recommendations", u, "error",
                                        FALSE, << >>, 0, 0, pass_done[u])
               /\ UNCHANGED cache_recs
          ELSE /\ cache_recs' =
                      IF found # << >> /\ redis_ok
                      THEN [cache_recs EXCEPT
                                ![u] = [present |-> TRUE, list |-> found,
                                        pass_done |-> pass_done[u]]]
                      ELSE cache_recs
               /\ last_call' = Response("get_recommendations", u, "success",
                                        FALSE, found, 0, pass_done[u],
                                        pass_done[u])
    /\ api_calls' = api_calls + 1
    /\ UNCHANGED << users_table, kafka_queue, cache_profile, pass_done,
                    interactions, recommendations, pass_idx,
                    recommendations_to_save, pass_no, pass_trace, pass_before,
                    pass_abort, latest, api_frame >>

\* GET /user-profile/{user_id}
GetUserProfile(u, redis_ok, db_ok) ==
    /\ api_calls < MaxCalls
    /\ LET entry == cache_profile[u]
           hit == redis_ok /\ entry.present
       IN IF hit
          THEN /\ last_call' = Response("get_user_profile", u, "success", TRUE,
                                        << >>, entry.total_interactions,
                                        0, pass_done[u])
               /\ UNCHANGED cache_profile
          ELSE IF ~db_ok
          THEN /\ last_call' = Response("get_user_profile", u, "error", FALSE,
                                        << >>, 0, 0, pass_done[u])
               /\ UNCHANGED cache_profile
          ELSE /\ cache_profile' =
                      IF redis_ok
                      THEN [cache_profile EXCEPT
                                ![u] = [present |-> TRUE,
                                        total_interactions |-> CountOf(u)]]
                      ELSE cache_profile
               /\ last_call' = Response("get_user_profile", u, "success", FALSE,
                                        << >>, CountOf(u), 0, pass_done[u])
    /\ api_calls' = api_calls + 1
    /\ UNCHANGED << users_table, kafka_queue, cache_recs, pass_done,
                    interactions, recommendations, pass_idx,
                    recommendations_to_save, pass_no, pass_trace, pass_before,
                    pass_abort, latest, api_frame >>

\* setex(key, ttl, value): redis drops the key when its time to live is over.
ExpireRecommendations(u) ==
    /\ cache_recs[u].present
    /\ cache_recs' = [cache_recs EXCEPT ![u] = NoRecsEntry]
    /\ UNCHANGED << users_table, kafka_queue, cache_profile, api_calls,
                    last_call, pass_done, interactions, recommendations,
                    pass_idx, recommendations_to_save, pass_no, pass_trace, pass_before, pass_abort, latest,
                    api_frame >>

ExpireProfile(u) ==
    /\ cache_profile[u].present
    /\ cache_profile' = [cache_profile EXCEPT ![u] = NoProfileEntry]
    /\ UNCHANGED << users_table, kafka_queue, cache_recs, api_calls,
                    last_call, pass_done, interactions, recommendations,
                    pass_idx, recommendations_to_save, pass_no, pass_trace, pass_before, pass_abort, latest,
                    api_frame >>

\* predict_scores of one pass, a score per content id: c1 above c2, c2 above
\* c1, or both the same.
PassScores ==
    { [c \in ContentIds |-> IF c = "c1" THEN 310 ELSE 290],
      [c \in ContentIds |-> IF c = "c1" THEN 290 ELSE 310],
      [c \in ContentIds |-> 300] }

\* _compute_and_save_recommendations from its first query to its commit or
\* rollback, with the oracle not available (every pair is ML-only).  The
\* consumer holds no cache client: the pass touches no redis key.  The
\* histories of the pair-by-pair view of a pass are not kept here.
RecomputePass(scores, stored) ==
    /\ pass_no < MaxPasses
    /\ ~bedrock_available
    /\ LET pairs == PassPairs
           rows == [i \in 1..Len(pairs) |->
                       [user_id |-> pairs[i][1], content_id |-> pairs[i][2],
                        ml_score |-> scores[pairs[i][2]],
                        llm_score |-> NoScore,
                        combined_score |->
                            BlendScores(scores[pairs[i][2]], NoScore)]]
           view == UpsertAll(recommendations, rows)
       IN /\ recommendations' =
                 IF stored THEN RecsAfterCommit(recommendations, view)
                 ELSE RecsAfterRollback(recommendations, view)
          /\ pass_done' =
                 [u \in UserIds |->
                     IF stored /\ \E i \in 1..Len(pairs) : pairs[i][1] = u
                     THEN pass_done[u] + 1 ELSE pass_done[u]]
    /\ pass_no' = pass_no + 1
    /\ UNCHANGED << users_table, kafka_queue, cache_recs, cache_profile,
                    api_calls, last_call, interactions, pass_idx,
                    recommendations_to_save, pass_trace, pass_before,
                    pass_abort, latest, api_frame >>

ApiNext ==
    \/ \E u \in UserIds : \E c \in LoggedContent : \E db \in LogFaults :
           \E published \in BOOLEAN : \E redis_ok \in BOOLEAN :
               LogInteraction(u, c, db, published, redis_ok)
    \/ \E u \in UserIds : \E limit \in Limits : \E redis_ok \in BOOLEAN :
           \E db_ok \in BOOLEAN :
               GetRecommendations(u, limit, redis_ok, db_ok)
    \/ \E u \in UserIds : \E redis_ok \in BOOLEAN : \E db_ok \in BOOLEAN :
           GetUserProfile(u, redis_ok, db_ok)
    \/ \E u \in UserIds : ExpireRecommendations(u)
    \/ \E u \in UserIds : ExpireProfile(u)
    \/ \E scores \in PassScores : \E stored \in BOOLEAN :
           RecomputePass(scores, stored)

ApiSpec == ApiInit /\ [][ApiNext]_vars

\* ------------------------------------------------- single function calls
\* _blend_scores and score_contextual_relevance called once each, on inputs
\* drawn from grids: the blend with any configured weights, the oracle call
\* with any answer of invoke_model.

\* config.ML_SCORE_WEIGHT and config.LLM_SCORE_WEIGHT as the environment can
\* set them, in tenths: pairs that sum to 1, to more, to less.
WeightGrid == {0 - 2, 4, 6, 10}

\* Scores in [0,1], in thousandths.
ScoreGrid == {0, 290, 300, 310, 1000}

BlendInputs ==
    [w_ml : WeightGrid, w_llm : WeightGrid, ml_score : ScoreGrid,
     llm_score : ScoreGrid \cup {NoScore}]

\* What invoke_model can do: raise; answer without a content list ("missing"),
\* with an empty text, with a text that is no number, with a content item that
\* is no object ("malformed"), with the text nan, or with a number.
ResponseBodies ==
    { Resp("raises", 0), Resp("missing", 0), Resp("empty", 0),
      Resp("unparseable", 0), Resp("malformed", 0), Resp("nan", 0),
      Resp("number", 0 - 200), Resp("number", 0), Resp("number", 800),
      Resp("number", 1000), Resp("number", 1500) }

\* The worker as constructed and initialized, with the smallest configuration
\* and an empty store.
Quiet ==
    /\ pc = "Idle"
    /\ running = {}
    /\ events_buffer = << >>
    /\ buffer_size = 1
    /\ model_update_counter = 0
    /\ MODEL_UPDATE_INTERVAL = 1
    /\ interactions = << >>
    /\ natural_key = FALSE
    /\ content = ContentIds
    /\ conn_aborted = FALSE
    /\ model = NoModel
    /\ recommendations = NoRecommendations
    /\ last_log = "info"
    /\ received = << >>
    /\ flush_result = "none"
    /\ flush_batch = << >>
    /\ store_before = << >>
    /\ retrain_result = "none"
    /\ retrain_count = 0

worker_vars == << loop_vars, config_vars, interactions, recommendations,
                 last_log >>

ScoreInit ==
    /\ Quiet
    /\ PassIdle
    /\ ApiIdle
    /\ blend_in \in BlendInputs
    /\ blend_out = NotApplied
    /\ response_body \in ResponseBodies
    /\ extracted = NotApplied
    /\ training = NoTraining
    /\ requests = << >>
    /\ process = Started

\* combined_score = self._blend_scores(ml_score, llm_score)
ApplyBlend ==
    /\ blend_out = NotApplied
    /\ blend_out' = BlendWith(blend_in.w_ml, blend_in.w_llm, blend_in.ml_score,
                              blend_in.llm_score)
    /\ UNCHANGED << blend_in, response_body, extracted, training, requests, process,
                    worker_vars, pass_vars, api_vars >>

\* llm_score = await self.bedrock_client.score_contextual_relevance(...)
ScoreResponse ==
    /\ extracted = NotApplied
    /\ extracted' = ScoreContextualRelevance(response_body)
    /\ UNCHANGED << blend_in, blend_out, response_body, training, requests, process,
                    worker_vars, pass_vars, api_vars >>

ScoreNext == ApplyBlend \/ ScoreResponse

ScoreSpec == ScoreInit /\ [][ScoreNext]_vars

\* ------------------------------------------- log_interaction, step by step
\* The API is one process with one event loop (uvicorn.run(app)).  A handler
\* runs without interruption up to its first await that suspends: the store
\* statements are synchronous calls, and publish_user_event has no await
\* inside, so log_interaction runs from its first query to the producer's
\* answer in one step, and other handlers run only while it waits for redis.

\* A request that has not reached its handler.
NewRequest ==
    [pc |-> "new", user_id |-> "none", db |-> "none", stored |-> FALSE,
     events |-> 0, invalidated |-> FALSE, status |-> "none"]

\* Variant: the handler takes every user for unknown.
UserFoundNever(table, u) == FALSE

\* SELECT id FROM users WHERE user_id = u returned a row.
UserFound(table, u) == u \in table

\* INSERT INTO users raises: users.user_id is unique (seed_data.py inserts with
\* ON CONFLICT (user_id)).
UserInsertConflicts(table, u) == u \in table

LogInit ==
    /\ Quiet
    /\ PassIdle
    /\ ApiIdle
    /\ blend_in = NoBlend
    /\ blend_out = NotApplied
    /\ response_body = NoResponse
    /\ extracted = NotApplied
    /\ training = NoTraining
    /\ requests = [r \in 1..MaxRequests |-> NewRequest]
    /\ process = Started

log_frame == << loop_vars, config_vars, recommendations, last_log, pass_vars,
               fn_vars, process, cache_profile, api_calls, last_call, pass_done >>

\* log_interaction from its first statement to the return of
\* publish_user_event.  db is the statement that the store fails, if any;
\* published is whether the producer delivered the event.
LogHandle(r, u, c, db, published) ==
    /\ requests[r].pc = "new"
    /\ db = "user_insert" => ~UserFound(users_table, u)
    /\ LET insert_user == db # "query" /\ ~UserFound(users_table, u)
           user_fails == insert_user
                         /\ (db = "user_insert"
                             \/ UserInsertConflicts(users_table, u))
           \* INSERT INTO interactions has no ON CONFLICT clause: it raises
           \* where the table has the unique constraint and holds the row
           ok == /\ db = "none"
                 /\ ~user_fails
                 /\ ~(natural_key /\ IRow(u, c) \in Range(interactions))
       IN /\ users_table' = IF insert_user /\ ~user_fails
                            THEN users_table \cup {u} ELSE users_table
          /\ interactions' = IF ok THEN Append(interactions, IRow(u, c))
                             ELSE interactions
          /\ kafka_queue' = IF ok /\ published
                            THEN Append(kafka_queue, Ev(u, c, "view"))
                            ELSE kafka_queue
          /\ requests' =
                 [requests EXCEPT
                      ![r] = [pc |-> IF ok THEN "invalidating" ELSE "done",
                              user_id |-> u, db |-> db, stored |-> ok,
                              events |-> IF ok /\ published THEN 1 ELSE 0,
                              invalidated |-> FALSE,
                              status |-> IF ok THEN "none" ELSE "error"]]
    /\ UNCHANGED << cache_recs, log_frame >>

\* await redis_cache.invalidate_recommendations(user_id) comes back and the
\* handler returns status success, whatever the call returned.
LogReturn(r, redis_ok) ==
    /\ requests[r].pc = "invalidating"
    /\ cache_recs' = IF redis_ok
                     THEN [cache_recs EXCEPT ![requests[r].user_id] = NoRecsEntry]
                     ELSE cache_recs
    /\ requests' = [requests EXCEPT ![r].pc = "done",
                                    ![r].invalidated = redis_ok,
                                    ![r].status = "success"]
    /\ UNCHANGED << users_table, interactions, kafka_queue, log_frame >>

LogNext ==
    \/ \E r \in 1..MaxRequests : \E u \in UserIds : \E c \in LoggedContent :
           \E db \in LogFaults : \E published \in BOOLEAN :
               LogHandle(r, u, c, db, published)
    \/ \E r \in 1..MaxRequests : \E redis_ok \in BOOLEAN : LogReturn(r, redis_ok)

LogSpec == LogInit /\ [][LogNext]_vars

\* ------------------------------------------- the training triples of a retrain
\* Weights are in thousandths (100 is 0.1).

\* Variant: the weight is count / 10 without the cap.
TrainingWeightUncapped(count) == count * 100

\* weight = min(1.0, count / 10.0)
TrainingWeight(count) == Min(1000, count * 100)

\* Variant: every pair gets a triple, also one without a row in the window.
TriplesOfAllPairs(counts) ==
    { [user_id |-> g[1], content_id |-> g[2], weight |-> TrainingWeight(counts[g])] :
          g \in DOMAIN counts }

\* SELECT user_id, content_id, COUNT(*) ... WHERE created_at > NOW() - INTERVAL
\* '7 days' GROUP BY user_id, content_id returns a row for the pairs that have
\* a row in the window; the for loop turns each into a triple.
TriplesOf(counts) ==
    { [user_id |-> g[1], content_id |-> g[2], weight |-> TrainingWeight(counts[g])] :
          g \in { h \in DOMAIN counts : counts[h] > 0 } }

TrainInit ==
    /\ Quiet
    /\ PassIdle
    /\ ApiIdle
    /\ blend_in = NoBlend
    /\ blend_out = NotApplied
    /\ response_body = NoResponse
    /\ extracted = NotApplied
    /\ requests = << >>
    /\ process = Started
    /\ training \in { [counts |-> c, gathered |-> FALSE, triples |-> {}] :
                        c \in [WindowPairs -> 0..MaxCount] }

\* retrain_model from the weighted-interaction query to the end of its loop.
GatherTriples ==
    /\ ~training.gathered
    /\ training' = [training EXCEPT !.gathered = TRUE,
                                    !.triples = TriplesOf(training.counts)]
    /\ UNCHANGED << blend_in, blend_out, response_body, extracted, requests,
                    process, worker_vars, pass_vars, api_vars >>

TrainNext == GatherTriples

TrainSpec == TrainInit /\ [][TrainNext]_vars

\* ------------------------------------------- the API and the consumer together
\* log_interaction writes the interaction and publishes its event; the
\* consumer reads the topic and flushes what it read into the same table.

PipelineInit ==
    /\ pc = "Idle"
    /\ running = {}
    /\ events_buffer = << >>
    /\ buffer_size \in 1..MaxBufferSize
    /\ model_update_counter = 0
    /\ MODEL_UPDATE_INTERVAL \in 1..MaxInterval
    /\ interactions = << >>
    /\ natural_key \in BOOLEAN
    /\ content = ContentIds
    /\ conn_aborted = FALSE
    /\ model = NoModel
    /\ recommendations = NoRecommendations
    /\ last_log = "info"
    /\ received = << >>
    /\ flush_result = "none"
    /\ flush_batch = << >>
    /\ store_before = << >>
    /\ retrain_result = "none"
    /\ retrain_count = 0
    /\ PassIdle
    /\ ApiIdle
    /\ blend_in = NoBlend
    /\ blend_out = NotApplied
    /\ response_body = NoResponse
    /\ extracted = NotApplied
    /\ training = NoTraining
    /\ requests = [r \in 1..MaxRequests |-> NewRequest]
    /\ process = Started

\* for message in self.consumer, for the oldest event of the topic: Receive
\* of that event, which leaves the topic.
ReceivePublished ==
    /\ AtPoll(pc)
    /\ kafka_queue # << >>
    /\ Len(received) < MaxEvents
    /\ LET e == Head(kafka_queue)
       IN /\ received' = Append(received, e)
          /\ events_buffer' = Append(events_buffer, e)
          /\ last_log' = "debug"
    /\ kafka_queue' = Tail(kafka_queue)
    /\ flush_result' = "none"
    /\ flush_batch' = << >>
    /\ store_before' = << >>
    /\ retrain_result' = "none"
    /\ IF BufferFull(events_buffer')
       THEN pc' = "Flushing" /\ running' = running \cup {"process_batch"}
       ELSE pc' = "Counting" /\ running' = running
    /\ UNCHANGED << model_update_counter, interactions, conn_aborted, model,
                    recommendations, retrain_count, config_vars, pass_vars,
                    users_table, cache_recs, cache_profile, api_calls,
                    last_call, pass_done, extra_vars >>

PipelineNext ==
    \/ \E r \in 1..MaxRequests : \E u \in UserIds : \E c \in LoggedContent :
           \E db \in LogFaults : \E published \in BOOLEAN :
               LogHandle(r, u, c, db, published)
    \/ \E r \in 1..MaxRequests : \E redis_ok \in BOOLEAN : LogReturn(r, redis_ok)
    \/ ReceivePublished
    \/ \E f \in FlushFaults : \E at \in 1..MaxEvents : ProcessBatch(f, at)
    \/ Count
    \/ \E f \in RetrainFaults : RetrainModel(f)

PipelineSpec == PipelineInit /\ [][PipelineNext]_vars

\* ======================================================== properties
\* The rows of a sequence of events with every repeated row dropped, in order
\* of first occurrence.
RECURSIVE FirstOccurrences(_)
FirstOccurrences(s) ==
    IF s = << >> THEN << >>
    ELSE LET front == FirstOccurrences(SubSeq(s, 1, Len(s) - 1))
             last == s[Len(s)]
         IN IF last \in Range(front) THEN front ELSE Append(front, last)

\* The natural identities of the events of a batch.
BatchIdentities(batch) == { Row(batch[i]) : i \in 1..Len(batch) }

\* C1: a flush never partially drains the buffer: after a flush that committed
\* the buffer is empty, after a flush that failed the buffer holds the same
\* events in the same order as when the attempt started.
C1_FlushNeverPartiallyDrains ==
    /\ flush_result = "committed" => events_buffer = << >>
    /\ flush_result = "rolled_back" => events_buffer = flush_batch

\* A flush of several events failed and the events are still buffered.
C1_Witness ==
    /\ flush_result = "rolled_back"
    /\ Len(flush_batch) >= 2
    /\ pc = "Counting"

\* C2 as stated: under conflict-ignore on natural identity a committed flush of
\* N events adds exactly N rows, whatever the buffer holds.
C2_ExactlyNRowsForAnyBuffer ==
    (flush_result = "committed" /\ natural_key)
        => Len(interactions) = Len(store_before) + Len(flush_batch)

\* C2 amended: under conflict-ignore on natural identity a committed flush adds
\* exactly one row per identity of the batch that the store did not hold yet
\* (N rows for N distinct new identities), keeps the earlier rows, stores no
\* identity twice and loses no event of the batch.
C2_OneRowPerNewIdentity ==
    (flush_result = "committed" /\ natural_key)
        => LET fresh == BatchIdentities(flush_batch) \ Range(store_before)
           IN /\ Len(interactions) = Len(store_before) + Cardinality(fresh)
              /\ SubSeq(interactions, 1, Len(store_before)) = store_before
              /\ \A i, j \in 1..Len(interactions) :
                     interactions[i] = interactions[j] => i = j
              /\ BatchIdentities(flush_batch) \subseteq Range(interactions)

\* A committed flush of two events with distinct new identities added two rows.
C2_Witness ==
    /\ flush_result = "committed"
    /\ natural_key
    /\ Len(flush_batch) = 2
    /\ Len(interactions) = Len(store_before) + 2

\* C3: a flush is transactional: after a flush attempt the store holds the rows
\* of none of the batch's events (it is what it was) when the attempt failed,
\* and a row for every event of the batch when it committed.
C3_FlushAllOrNothing ==
    /\ flush_result = "rolled_back" => interactions = store_before
    /\ flush_result = "committed" =>
           /\ BatchIdentities(flush_batch) \subseteq Range(interactions)
           /\ SubSeq(interactions, 1, Len(store_before)) = store_before

\* A flush failed at its second event, after the first insert was executed.
C3_Witness ==
    /\ flush_result = "rolled_back"
    /\ FirstKeyError(flush_batch) = 2
    /\ HasInsertKeys(flush_batch[1])

\* C4 as stated: the buffer never holds more events than its capacity.
C4_BufferWithinCapacity == Len(events_buffer) <= buffer_size

\* C5 as stated, in the form a finite run decides: when the worker has been
\* closed no received event is left in the buffer (the code has no step that
\* logs and drops an event, so every event must have been persisted).
C5_NoEventLeftBehind == pc = "Closed" => events_buffer = << >>

C7_LoopNeverEndsOnFailure == pc # "Stopped"

\* C8: buffering, flushing and retraining never overlap: a message is taken
\* only while neither process_batch nor retrain_model is running, and the two
\* are never running at the same time.
C8_StepsDoNotOverlap ==
    [][ /\ (received' # received => running = {})
        /\ Cardinality(running') <= 1 ]_vars

\* One event triggered a flush and a retrain: the flush is over, the retrain runs.
C8_Witness ==
    /\ pc = "Retraining"
    /\ running = {"retrain_model"}
    /\ flush_result = "committed"

\* C9: events are processed in arrival order: the buffer is the tail of the
\* arrival sequence, and the stored rows are the rows of the events before it
\* in arrival order (with conflict-ignore, their first occurrences), also after
\* failed and retried flushes.
C9_ArrivalOrderPreserved ==
    LET w == Len(received) - Len(events_buffer)
        written == [i \in 1..w |-> Row(received[i])]
    IN /\ w >= 0
       /\ events_buffer = SubSeq(received, w + 1, Len(received))
       /\ interactions = IF natural_key THEN FirstOccurrences(written)
                         ELSE written

\* A flush that was retried after a failure committed two batches' events.
C9_Witness ==
    /\ flush_result = "committed"
    /\ Len(flush_batch) > buffer_size
    /\ Len(interactions) >= 2
    /\ interactions[1] # interactions[2]

\* C10: a retrain step that finds no users or no content changes neither the
\* model nor any recommendation row and logs no error.
C10_InsufficientDataIsNoOp ==
    [][ ( /\ pc = "Retraining"
          /\ pc' = "Idle"
          /\ retrain_result' # "db_error"
          /\ (StoredUsers(interactions) = {} \/ content = {}) )
        => ( /\ model' = model
             /\ recommendations' = recommendations
             /\ last_log' # "error" ) ]_vars

\* A retrain found users but an empty content table and returned.
C10_Witness ==
    /\ retrain_result = "insufficient"
    /\ StoredUsers(interactions) # {}
    /\ content = {}
    /\ last_log = "warning"

\* C11: a retrain that completes has reloaded users and content, re-initialised
\* and trained the model and then recomputed: the model is trained over exactly
\* the stored users and content ids, and the store holds exactly one
\* recommendation row for every (stored user, content id) pair, scored by that
\* newly trained model.
C11_CompletedRetrainStoresFreshRows ==
    retrain_result = "done" =>
        /\ model.trained
        /\ model.users = StoredUsers(interactions)
        /\ model.contents = content
        /\ \A u \in StoredUsers(interactions) : \A c \in content :
               LET hits == { i \in 1..Len(recommendations) :
                                /\ recommendations[i].user_id = u
                                /\ recommendations[i].content_id = c }
               IN /\ Cardinality(hits) = 1
                  /\ \A i \in hits : recommendations[i].version = model.version

\* A second completed retrain has overwritten the rows of the first.
C11_Witness ==
    /\ retrain_result = "done"
    /\ model.version >= 2
    /\ Len(recommendations) >= 1
    /\ \A i \in 1..Len(recommendations) : recommendations[i].version >= 2

\* The rows of a table that belong to one (user, content) pair.
RowsOfKey(table, u, c) ==
    { i \in 1..Len(table) : table[i].user_id = u /\ table[i].content_id = c }

\* The trace entries of the current pass whose oracle call gave no score.
OracleGaveNothing(t) ==
    t.calls >= 1 /\ ExtractScore(t.response) = NoScore

\* C12: a recompute pass writes its rows as one batch: while the pass is
\* scoring and after it failed (while scoring or while writing any row) the
\* stored rows are those from before the pass; after its commit every computed
\* row is stored.
C12_PassIsOneBatch ==
    /\ pass_pc \in {"scoring", "rolled_back"} => recommendations = pass_before
    /\ pass_pc = "committed" =>
           \A i \in 1..Len(recommendations_to_save) :
               \E j \in 1..Len(recommendations) :
                   recommendations[j] = recommendations_to_save[i]

\* A pass failed while writing, with rows computed that differ from the stored ones.
C12_Witness ==
    /\ pass_pc = "rolled_back"
    /\ pass_abort = "store"
    /\ pass_idx > Len(PassPairs)
    /\ Len(pass_before) >= 1
    /\ recommendations_to_save[1] # pass_before[1]

\* C13: upsert is last-write-wins and keeps the key unique: the table holds at
\* most one row per (user, content), and that row carries the ml_score,
\* llm_score and combined_score of the most recent committed upsert of the key.
C13_UpsertLastWriteWins ==
    /\ \A i, j \in 1..Len(recommendations) :
           SameKey(recommendations[i], recommendations[j]) => i = j
    /\ Range(recommendations) = latest

\* A second pass stored an absent llm_score over a present one.
C13_Witness ==
    /\ pass_pc = "committed"
    /\ pass_no = 2
    /\ \E i \in 1..Len(pass_before) : \E j \in 1..Len(recommendations) :
           /\ SameKey(pass_before[i], recommendations[j])
           /\ pass_before[i].llm_score # NoScore
           /\ recommendations[j].llm_score = NoScore

\* C17: for a pair whose ml_score does not exceed the gate the pass makes no
\* oracle call and the computed combined_score is the ml_score.
C17_NoOracleCallAtOrBelowGate ==
    /\ Len(recommendations_to_save) <= Len(pass_trace)
    /\ \A i \in 1..Len(pass_trace) :
           pass_trace[i].ml_score <= GateThreshold =>
               /\ pass_trace[i].calls = 0
               /\ i <= Len(recommendations_to_save) =>
                      /\ recommendations_to_save[i].llm_score = NoScore
                      /\ recommendations_to_save[i].combined_score
                             = pass_trace[i].ml_score
               /\ pass_pc = "committed" =>
                      \A j \in RowsOfKey(recommendations, pass_trace[i].user_id,
                                         pass_trace[i].content_id) :
                          recommendations[j].combined_score
                              = pass_trace[i].ml_score

\* With the oracle available a pair scored exactly at the gate was stored
\* without a call.
C17_Witness ==
    /\ bedrock_available
    /\ pass_pc = "committed"
    /\ \E i \in 1..Len(pass_trace) :
           /\ pass_trace[i].ml_score = GateThreshold
           /\ pass_trace[i].calls = 0
           /\ \E j \in 1..Len(recommendations) :
                  /\ recommendations[j].content_id = pass_trace[i].content_id
                  /\ recommendations[j].user_id = pass_trace[i].user_id
                  /\ recommendations[j].combined_score = GateThreshold

\* C18 as stated: every pair whose ml_score is above the gate triggers an
\* oracle call.
C18_AboveGateAlwaysCalls ==
    \A i \in 1..Len(pass_trace) :
        pass_trace[i].ml_score > GateThreshold => pass_trace[i].calls >= 1

\* C18 amended: when the oracle is available, every pair whose ml_score is
\* above the gate triggers an oracle call; when it is not available, none does.
C18_AboveGateCallsWhenAvailable ==
    \A i \in 1..Len(pass_trace) :
        pass_trace[i].ml_score > GateThreshold =>
            IF bedrock_available THEN pass_trace[i].calls = 1
            ELSE pass_trace[i].calls = 0

\* With the oracle available a pair scored 0.31 was sent to the oracle.
C18_Witness ==
    /\ bedrock_available
    /\ \E i \in 1..Len(pass_trace) :
           /\ pass_trace[i].ml_score = 310
           /\ pass_trace[i].calls = 1

\* C19: within one pass the oracle is consulted at most once per (user,
\* content) pair, also when its answer was a failure or unusable.
C19_OracleAtMostOncePerPair ==
    \A u \in UserIds : \A c \in ContentIds :
        Cardinality({ i \in 1..Len(pass_trace) :
                         /\ pass_trace[i].user_id = u
                         /\ pass_trace[i].content_id = c
                         /\ pass_trace[i].calls >= 1 }) <= 1

\* A pass whose oracle call for a pair failed was committed.
C19_Witness ==
    /\ pass_pc = "committed"
    /\ \E i \in 1..Len(pass_trace) : OracleGaveNothing(pass_trace[i])

\* C20: no oracle failure aborts a pass: a pair whose oracle call raised or
\* gave an unusable answer, or that was scored while the oracle is unavailable,
\* gets no llm_score and combined_score = ml_score, the pass goes on with the
\* next pair, and a pass rolls back only because of the store.
C20_OracleFailureNeverAborts ==
    /\ pass_abort # "oracle"
    /\ pass_pc = "rolled_back" => pass_abort = "store"
    /\ pass_pc = "scoring" => Len(pass_trace) = pass_idx - 1
    /\ \A i \in 1..Len(pass_trace) :
           (OracleGaveNothing(pass_trace[i]) \/ ~bedrock_available) =>
               /\ i <= Len(recommendations_to_save)
               /\ recommendations_to_save[i].llm_score = NoScore
               /\ recommendations_to_save[i].combined_score
                      = pass_trace[i].ml_score

\* The oracle raised for the first pair; the second pair was scored by it and
\* the pass was committed.
C20_Witness ==
    /\ pass_pc = "committed"
    /\ Len(pass_trace) = 2
    /\ pass_trace[1].calls = 1
    /\ pass_trace[1].response.kind = "raises"
    /\ recommendations_to_save[2].llm_score # NoScore

\* C14: a read of a user's recommendations issued after a recompute pass for
\* the user has committed never returns a list cached before that pass: a
\* response served from the cache comes from an entry written after the user's
\* latest committed pass.
C14_ReadAfterPassIsFresh ==
    (last_call.op = "get_recommendations" /\ last_call.cached) =>
        last_call.entry_pass = last_call.read_pass

\* C15: when a log_interaction call has returned success, no cached
\* recommendation list of that user is present.
C15_SuccessfulLogLeavesNoCachedList ==
    (last_call.op = "log_interaction" /\ last_call.status = "success") =>
        ~cache_recs[last_call.user_id].present

\* C16: a get_user_profile response reports as total_interactions the number
\* of interactions the store holds for the user, every interaction logged
\* before the request included.
C16_ProfileCountsNewInteraction ==
    (last_call.op = "get_user_profile" /\ last_call.status = "success") =>
        last_call.total_interactions = CountOf(last_call.user_id)

\* C21: blend(ml_score, no LLM score) returns ml_score unchanged, whatever the
\* weights: the absent score is not blended as zero and the ML score is not
\* re-weighted.
C21_BlendWithoutLlmIsMlScore ==
    (blend_out # NotApplied /\ blend_in.llm_score = NoScore) =>
        blend_out = blend_in.ml_score

\* A blend without LLM score under an ML weight other than 1 returned a
\* non-zero ml_score.
C21_Witness ==
    /\ blend_out # NotApplied
    /\ blend_in.llm_score = NoScore
    /\ blend_in.w_ml = 6
    /\ blend_in.ml_score = 310
    /\ blend_out = 310

\* C22: with an LLM score, blend returns w_ml * ml_score + w_llm * llm_score
\* clamped into [0,1], also for weights that do not sum to 1.
C22_BlendIsClampedWeightedSum ==
    (blend_out # NotApplied /\ blend_in.llm_score # NoScore) =>
        LET sum == blend_in.w_ml * blend_in.ml_score
                   + blend_in.w_llm * blend_in.llm_score
        IN IF sum >= 10000 THEN blend_out = 1000
           ELSE IF sum <= 0 THEN blend_out = 0
           ELSE 10 * blend_out = sum

\* Weights 1.0 and 0.6 took the sum of two scores above 1, and the blend
\* returned 1.
C22_Witness ==
    /\ blend_in.w_ml = 10
    /\ blend_in.w_llm = 6
    /\ blend_in.ml_score = 1000
    /\ blend_in.llm_score = 1000
    /\ blend_out = 1000

\* C23: combined_score is always present and within [0,1]: the blend of any
\* ml_score in [0,1] with any LLM score in [0,1] or with none is in [0,1]
\* under any weights, and every row a recompute pass computes or stores has a
\* combined_score in [0,1].
C23_CombinedScoreInUnitRange ==
    /\ \A b \in BlendInputs :
           BlendWith(b.w_ml, b.w_llm, b.ml_score, b.llm_score) \in 0..1000
    /\ \A i \in 1..Len(recommendations_to_save) :
           recommendations_to_save[i].combined_score \in 0..1000
    /\ \A i \in 1..Len(recommendations) :
           recommendations[i].combined_score \in 0..1000

\* A committed pass stored a row blended from an ml_score and an LLM score.
C23_Witness ==
    /\ pass_pc = "committed"
    /\ \E i \in 1..Len(recommendations) :
           /\ recommendations[i].llm_score = 1000
           /\ recommendations[i].ml_score = 310
           /\ recommendations[i].combined_score = 586

\* C24: a row of a recompute pass has an llm_score only if the oracle was
\* called for its pair in that pass and answered with a score; a pair that was
\* gated out, or whose call gave no score, has no llm_score, in the computed
\* row and in the stored one.
C24_LlmScoreOnlyFromOracle ==
    \A i \in 1..Len(recommendations_to_save) :
        LET row == recommendations_to_save[i]
            step == pass_trace[i]
            answered == step.calls = 1 /\ step.response.kind = "number"
        IN /\ row.user_id = step.user_id /\ row.content_id = step.content_id
           /\ row.llm_score # NoScore => answered
           /\ ~answered => row.llm_score = NoScore
           /\ pass_pc = "committed" =>
                  \A j \in RowsOfKey(recommendations, row.user_id,
                                     row.content_id) :
                      recommendations[j].llm_score = row.llm_score

\* A committed pass stored one pair whose call gave no score without
\* llm_score, and one pair whose call gave 0.8 with it.
C24_Witness ==
    /\ pass_pc = "committed"
    /\ Len(pass_trace) = 2
    /\ pass_trace[1].calls = 1
    /\ pass_trace[1].response.kind = "unparseable"
    /\ pass_trace[2].calls = 1
    /\ Len(recommendations) = 2
    /\ recommendations[1].llm_score = NoScore
    /\ recommendations[2].llm_score = 800

\* C25: an oracle response becomes a score as follows: a number is clamped
\* into [0,1], a response that is missing, empty or no number gives no score,
\* and no error reaches the caller of score_contextual_relevance.
C25_ResponseToScore ==
    extracted # NotApplied =>
        /\ extracted # Raised
        /\ extracted = NoScore \/ extracted \in 0..1000
        /\ response_body.kind = "number" =>
               extracted = IF response_body.value < 0 THEN 0
                           ELSE IF response_body.value > 1000 THEN 1000
                           ELSE response_body.value
        /\ response_body.kind \in {"raises", "missing", "empty", "unparseable",
                                   "malformed"} =>
               extracted = NoScore

\* The answer 1.5 was turned into the score 1.
C25_Witness ==
    /\ response_body = Resp("number", 1500)
    /\ extracted = 1000

\* C26: whenever the consumer is between events, every stored recommendation
\* row was computed from the embedding model the consumer holds in memory: a
\* Retraining step that fails part-way leaves the model that computed the
\* stored rows in place.
C26_StoredRowsFromCurrentModel ==
    pc = "Idle" =>
        \A i \in 1..Len(recommendations) :
            recommendations[i].version = model.version

\* The number of rows of a table equal to r.
Copies(rows, r) == Cardinality({ i \in 1..Len(rows) : rows[i] = r })

\* C28: interaction history is retained in full: after a committed flush the
\* store holds, for every user, content and kind new to it, as many rows as
\* the batch had events for them; several events of one batch for the same
\* user and content are not collapsed into one row.
C28_RepeatedEventsAllStored ==
    flush_result = "committed" =>
        \A r \in BatchIdentities(flush_batch) \ Range(store_before) :
            Copies(interactions, r) = Copies(BatchRows(flush_batch), r)

C29_SuccessMeansStoredAndPublished ==
    \A r \in DOMAIN requests :
        requests[r].status = "success" =>
            /\ requests[r].stored
            /\ requests[r].events = 1

\* C30: a failure to reach the message source or the durable store at startup
\* is fatal: the worker consumes no event and the process ends with the error
\* after closing what was opened; start_consuming on a consumer that was not
\* initialized raises instead of consuming; a failure to initialize the oracle
\* is not fatal and only disables LLM scoring.
C30_StartupFailuresAreFatal ==
    /\ process.error \in {"kafka", "db"} =>
           /\ pc \in {"Failed", "Closed"}
           /\ received = << >>
    /\ (pc = "Closed" /\ process.error # "none") =>
           /\ process.consumer # "open"
           /\ process.db_connection # "open"
    /\ process.consumer = "none" =>
           /\ received = << >>
           /\ pc \in {"Constructed", "Failed", "Closed"}
    /\ process.error = "RuntimeError" => process.consumer = "none"
    /\ process.oracle \in {"no_credentials", "client_error"} =>
           /\ ~bedrock_available
           /\ process.error = "none"
           /\ process.consumer # "none"
           /\ process.db_connection # "none"

\* The store could not be reached: the process has ended with that error, the
\* consumer it had opened is closed, and no event was consumed.
C30_Witness ==
    /\ pc = "Closed"
    /\ process.error = "db"
    /\ process.consumer = "closed"
    /\ process.db_connection = "none"
    /\ received = << >>

\* C31: the training weight of a (user, content) pair is min(1, count/10) for
\* the count of its rows inside the recency window: it is in (0,1], it does
\* not decrease when the count grows, it is 1 from a count of 10 on, and a
\* pair without a row in the window gives no training triple.
C31_TrainingWeight ==
    training.gathered =>
        /\ \A g \in WindowPairs :
               LET n == training.counts[g]
                   ts == { t \in training.triples :
                             t.user_id = g[1] /\ t.content_id = g[2] }
               IN IF n = 0 THEN ts = {}
                  ELSE /\ Cardinality(ts) = 1
                       /\ \A t \in ts :
                              /\ t.weight > 0
                              /\ t.weight <= 1000
                              /\ IF n >= 10 THEN t.weight = 1000
                                 ELSE t.weight = 100 * n
        /\ \A t1 \in training.triples : \A t2 \in training.triples :
               training.counts[<< t1.user_id, t1.content_id >>]
                   <= training.counts[<< t2.user_id, t2.content_id >>]
               => t1.weight <= t2.weight

\* One pair has more than ten rows in the window and weight 1, the other has
\* none and no triple.
C31_Witness ==
    /\ training.gathered
    /\ training.counts[<< "u1", "c1" >>] = 11
    /\ training.counts[<< "u1", "c2" >>] = 0
    /\ training.triples = { [user_id |-> "u1", content_id |-> "c1", weight |-> 1000] }

\* A list of response items is in non-increasing combined_score order.
ScoreOrdered(list) ==
    \A i \in 1..Len(list) : \A j \in 1..Len(list) :
        i < j => list[i].combined_score >= list[j].combined_score

\* C32: get_recommendations(user, limit) returns at most limit items in
\* non-increasing combined_score order, from the cache or from the store; an
\* empty result is never written to the cache and never reported as cached.
C32_AtMostLimitInScoreOrder ==
    [][(api_calls' # api_calls /\ last_call'.op = "get_recommendations") =>
           /\ ScoreOrdered(last_call'.recommendations)
           /\ last_call'.cached => last_call'.recommendations # << >>
           /\ \A v \in UserIds :
                  cache_recs'[v].present =>
                      /\ cache_recs'[v].list # << >>
                      /\ ScoreOrdered(cache_recs'[v].list)
           /\ \A limit \in Limits :
                  Len(last_call'.recommendations) > limit =>
                      \A redis_ok \in BOOLEAN : \A db_ok \in BOOLEAN :
                          ~GetRecommendations(last_call'.user_id, limit,
                                              redis_ok, db_ok)]_vars

\* A request with limit 1 was served from a cached list of two items.
C32_Witness ==
    /\ last_call.op = "get_recommendations"
    /\ last_call.cached
    /\ Len(last_call.recommendations) = 1
    /\ Len(cache_recs[last_call.user_id].list) = 2
    /\ cache_recs[last_call.user_id].list[1].combined_score
           > cache_recs[last_call.user_id].list[2].combined_score

\* C33: with no write to the recommendations table since the entry was cached,
\* get_recommendations(user, limit) served from the cache returns a list the
\* store would return for that limit (a list cached by a request with a
\* smaller limit does not shorten the answer to a larger limit).
C33_CacheHitSameAsStore ==
    [][\A u \in UserIds : \A limit \in Limits :
           \A redis_ok \in BOOLEAN : \A db_ok \in BOOLEAN :
               (/\ GetRecommendations(u, limit, redis_ok, db_ok)
                /\ last_call'.cached
                /\ last_call'.entry_pass = last_call'.read_pass)
               => last_call'.recommendations \in RankedLists(u, limit)]_vars

\* C34: each interaction accepted by log_interaction is exactly one row of the
\* interactions table once the consumer has flushed its event: when nothing
\* is left in the topic or in the buffer, the table has as many rows as
\* interactions were accepted.
C34_OneRowPerAcceptedInteraction ==
    (/\ kafka_queue = << >>
     /\ events_buffer = << >>
     /\ pc = "Idle")
    => Len(interactions)
           = Cardinality({ r \in DOMAIN requests : requests[r].stored })

\* C35 as stated: whenever a Retraining step starts, every event received so
\* far has been persisted (the buffer is empty), for every buffer capacity and
\* retrain interval.
C35_RetrainStartsWithEmptyBuffer ==
    pc = "Retraining" => events_buffer = << >>

\* C35, amended: when an event triggers both a flush and a retrain, the flush
\* runs before the retrain: a Retraining step starts only when process_batch
\* is over, and with a buffer that is empty if the event's flush committed,
\* unchanged if it was rolled back, and below its capacity if the event
\* triggered no flush.
C35_FlushBeforeRetrain ==
    pc = "Retraining" =>
        /\ "process_batch" \notin running
        /\ flush_result = "committed" => events_buffer = << >>
        /\ flush_result = "rolled_back" => events_buffer = flush_batch
        /\ flush_result = "none" => Len(events_buffer) < buffer_size

\* The second of two events filled the buffer and reached the interval: its
\* flush has committed and the retrain starts with an empty buffer.
C35_Witness ==
    /\ pc = "Retraining"
    /\ buffer_size = 2
    /\ MODEL_UPDATE_INTERVAL = 2
    /\ Len(received) = 2
    /\ flush_result = "committed"
    /\ events_buffer = << >>
    /\ Len(interactions) >= 1

\* C36: cache failures never fail a request: while the cache
\* client is missing or its operations raise, log_interaction still returns
\* success and get_recommendations still answers from the store with
\* cached=false, and neither changes a cache entry.
C36_CacheFailuresNeverFailRequest ==
    [][/\ (api_calls' # api_calls /\ last_call'.op = "log_interaction") =>
              \A c \in LoggedContent : \A published \in BOOLEAN :
                  LogInteraction(last_call'.user_id, c, "none", published, FALSE) =>
                      /\ last_call'.status = "success"
                      /\ cache_recs' = cache_recs
       /\ (api_calls' # api_calls /\ last_call'.op = "get_recommendations") =>
              \A limit \in Limits :
                  GetRecommendations(last_call'.user_id, limit, FALSE, TRUE) =>
                      /\ last_call'.status = "success"
                      /\ ~last_call'.cached
                      /\ IF CountOf(last_call'.user_id) = 0
                         THEN last_call'.recommendations = << >>
                         ELSE last_call'.recommendations
                                  \in RankedLists(last_call'.user_id, limit)
                      /\ cache_recs' = cache_recs]_vars

\* The user's entry holds one item, and a request with limit 2 was answered
\* with the two rows of the store, cached=false: the cache failed during it.
C36_Witness ==
    /\ last_call.op = "get_recommendations"
    /\ last_call.status = "success"
    /\ ~last_call.cached
    /\ Len(last_call.recommendations) = 2
    /\ cache_recs[last_call.user_id].present
    /\ Len(cache_recs[last_call.user_id].list) = 1

====
